---- MODULE Spec2Model ----
(***************************************************************************)
(* SiteWeave (poster2web): the project/section data model, its header      *)
(* normalisation, the editor's section and content operations, the         *)
(* buttons model with its legacy migration, and the save scheduling.       *)
(*                                                                         *)
(* Strings are modelled as sequences of tokens (each token a TLA+ string), *)
(* so that trim(), includes('@'), the /^https?:/i test and the extension   *)
(* stripping are computed.  JavaScript indices are 0-based; the sequence   *)
(* position of JS index i is i + 1.                                        *)
(***************************************************************************)
EXTENDS Integers, Sequences, FiniteSets, TLC

VARIABLES
    screen,               \* APP_STATE.currentScreen
    title,                \* APP_STATE.currentProject.title
    sections,             \* APP_STATE.currentProject.sections
    dom,                  \* what renderSections last put into #sectionsContainer
    preview,              \* what updatePreview last put into the preview frame
    buttons,              \* APP_STATE.settings.buttons
    legacy,               \* the legacy fields of APP_STATE.settings
    layoutStyle,          \* APP_STATE.settings.layoutStyle
    unsavedChanges,       \* APP_STATE.unsavedChanges
    saveTimeout,          \* the debounce timers not yet fired or cleared, oldest first
    saved,                \* the project held by the persistence collaborator
    now,                  \* Date.now()
    nextId,               \* ids handed out so far by LWB_Utils.createUniqueId
    reads,                \* file reads in flight (import)
    initTimers,           \* pending setTimeout(initializeEditor, 100)
    windowAppState,       \* whether window.APP_STATE is defined
    windowUpdateProject,  \* whether window.updateProject has been assigned
    toast,                \* notice raised by the last handler
    updated,              \* the last handler invoked updateProject
    lastOp                \* the last handler and its arguments

vars == <<screen, title, sections, dom, preview, buttons, legacy, layoutStyle,
          unsavedChanges, saveTimeout, saved, now, nextId, reads, initTimers,
          windowAppState, windowUpdateProject, toast, updated, lastOp>>

projectVars == <<title, sections>>
settingsVars == <<buttons, legacy, layoutStyle>>
saveVars == <<unsavedChanges, saveTimeout, saved>>
envVars == <<now, windowAppState>>

----------------------------------------------------------------------------
(* Bounds *)

MaxSections == 2
MaxContent == 2
MaxClock == 1
MaxIds == 6
MaxRand == 2
MaxReads == 2
MaxInitTimers == 1

----------------------------------------------------------------------------
(* Program constants *)

MaxButtons == 3

----------------------------------------------------------------------------
(* Sequence helpers (Array.prototype.splice / unshift / destructuring swap) *)

RemoveAt(s, p) == SubSeq(s, 1, p - 1) \o SubSeq(s, p + 1, Len(s))

InsertAt(s, p, e) == SubSeq(s, 1, p - 1) \o <<e>> \o SubSeq(s, p, Len(s))

Swap(s, p, q) == [k \in 1..Len(s) |-> IF k = p THEN s[q] ELSE IF k = q THEN s[p] ELSE s[k]]

Min2(a, b) == IF a < b THEN a ELSE b

----------------------------------------------------------------------------
(* String helpers *)

IsSpace(tok) == tok = " "

RECURSIVE TrimLeft(_)
TrimLeft(s) == IF s # <<>> /\ IsSpace(Head(s)) THEN TrimLeft(Tail(s)) ELSE s

RECURSIVE TrimRight(_)
TrimRight(s) ==
    IF s # <<>> /\ IsSpace(s[Len(s)]) THEN TrimRight(SubSeq(s, 1, Len(s) - 1)) ELSE s

\* String.prototype.trim
Trim(s) == TrimRight(TrimLeft(s))

\* String.prototype.includes for a one-token needle
Includes(s, tok) == \E k \in 1..Len(s) : s[k] = tok

\* Case folding of the tokens that occur in the modelled inputs
Lower(tok) == IF tok = "HTTP" THEN "http" ELSE IF tok = "HTTPS" THEN "https" ELSE tok

\* JavaScript truthiness of a string: non-empty
Truthy(s) == s # <<>>

----------------------------------------------------------------------------
(* Ids.  Every id is a triple <<prefix, time, discriminator>>. *)

NoId == <<"undefined", 0, 0>>

Rand == 1..MaxRand

\* editor.js createUniqueId: 'id-' + Date.now() + '-' + Math.random()...
createUniqueId(t, r) == <<"id", t, r>>

\* LWB_Utils.createUniqueId: the n-th id it hands out
UtilsCreateUniqueId(n) == <<"uid", 0, n>>

\* addSection: `section-${Date.now()}`
SectionIdAt(t) == <<"section", t, 0>>

\* import handlers: fixed literal ids ('header', 'content', 'abstract', ...)
LiteralId(name) == <<name, 0, 0>>

----------------------------------------------------------------------------
(* Sections and content blocks.  isHeader is modelled by its truthiness     *)
(* (absent and false are never told apart by the code); showIcon keeps the  *)
(* three cases "undefined", "true", "false".                               *)

TextBlock(value, id) == [type |-> "text", value |-> value, allowHtml |-> FALSE, id |-> id]

ImageBlock(url, id) == [type |-> "image", value |-> url, allowHtml |-> FALSE, id |-> id]

Section(id, name, icon, isHeader, showIcon, content) ==
    [id |-> id, name |-> name, icon |-> icon, isHeader |-> isHeader,
     showIcon |-> showIcon, content |-> content]

HeaderIndices(secs) == {k \in 1..Len(secs) : secs[k].isHeader}

SetMin(S) == CHOOSE m \in S : \A x \in S : m <= x

----------------------------------------------------------------------------
(* Header normalisation *)

\* `<h1>${title}</h1>` with title = project.title || 'Header'
HeaderHeading(t) == <<"<h1>">> \o (IF Truthy(t) THEN t ELSE <<"Header">>) \o <<"</h1>">>

\* The header section ensureHeaderExists synthesises (it has no showIcon field)
SynthHeader(t, n) ==
    Section(UtilsCreateUniqueId(n + 1), <<"Header">>, "doc", TRUE, "undefined",
            <<TextBlock(HeaderHeading(t), UtilsCreateUniqueId(n + 2))>>)

\* Clear isHeader on every flagged section but the first flagged one
DemoteExtraHeaders(secs) ==
    LET hs == HeaderIndices(secs)
    IN  [k \in 1..Len(secs) |->
            IF k \in hs /\ k # SetMin(hs) THEN [secs[k] EXCEPT !.isHeader = FALSE] ELSE secs[k]]

\* the header exchanged with the section at index 0
PromoteBySwap(secs, p) == [secs EXCEPT ![1] = secs[p], ![p] = secs[1]]

\* splice(firstHeaderIndex, 1) then unshift
PromoteToFront(secs, p) == <<secs[p]>> \o RemoveAt(secs, p)

\* unshift of the first header without the splice that removes it
ensureHeaderExistsNoSplice(secs, t, n) ==
    IF HeaderIndices(secs) = {}
    THEN <<SynthHeader(t, n)>> \o secs
    ELSE LET first == SetMin(HeaderIndices(secs))
             demoted == DemoteExtraHeaders(secs)
         IN  IF first > 1 THEN <<demoted[first]>> \o demoted ELSE demoted

ensureHeaderExists(secs, t, n) ==
    IF HeaderIndices(secs) = {}
    THEN <<SynthHeader(t, n)>> \o secs
    ELSE LET first == SetMin(HeaderIndices(secs))
             demoted == DemoteExtraHeaders(secs)
         IN  IF first > 1 THEN PromoteToFront(demoted, first) ELSE demoted

\* Number of ids ensureHeaderExists draws from LWB_Utils.createUniqueId
IdsForHeader(secs) == IF HeaderIndices(secs) = {} THEN 2 ELSE 0

enforceHeaderPosition(secs) ==
    IF secs = <<>> \/ HeaderIndices(secs) = {}
    THEN secs
    ELSE LET first == SetMin(HeaderIndices(secs))
             demoted == DemoteExtraHeaders(secs)
         IN  IF first > 1 THEN PromoteToFront(demoted, first) ELSE demoted

----------------------------------------------------------------------------
(* Rendering of the editor and of the preview *)

\* `if (!section.showIcon)` in place of the typeof test
DefaultShowIconFalsy(secs) ==
    [k \in 1..Len(secs) |->
        IF secs[k].showIcon \in {"undefined", "false"}
        THEN [secs[k] EXCEPT !.showIcon = "true"] ELSE secs[k]]

\* renderSections: the only mutation is the showIcon default
DefaultShowIcon(secs) ==
    [k \in 1..Len(secs) |->
        IF secs[k].showIcon = "undefined" THEN [secs[k] EXCEPT !.showIcon = "true"] ELSE secs[k]]

\* createSectionElement: one element per section; the delete control is
\* omitted for the header, and every control carries the section's index
DomOf(secs) ==
    [k \in 1..Len(secs) |->
        [id |-> secs[k].id, index |-> k - 1, deleteControl |-> ~secs[k].isHeader]]

\* updatePreview: the document generated from the project and the settings
PreviewOf(t, secs, btns, layout) ==
    [title |-> t, sections |-> secs, buttons |-> btns, layoutStyle |-> layout]

----------------------------------------------------------------------------
(* updateProject: normalise, mark unsaved, refresh the preview, restart    *)
(* the debounced save timer.  secs, t, n, btns, layout are the values the  *)
(* calling handler has left in the application state.                      *)

\* A timer started by setTimeout(..., 1000) is "waiting" until its delay has
\* run out and "due" from then on; updateProject.saveTimeout is the handle
\* of the timer started last
setTimeout(timers) == Append(timers, "waiting")

\* updateProject without the clearTimeout call
clearTimeoutSkipped(timers) == timers

\* if (updateProject.saveTimeout) clearTimeout(updateProject.saveTimeout)
clearTimeout(timers) ==
    IF timers = <<>> THEN <<>> ELSE SubSeq(timers, 1, Len(timers) - 1)

\* updateProject without its two normalisation calls
NormalizeSkipped(secs, t, n) == secs

Normalize(secs, t, n) == enforceHeaderPosition(ensureHeaderExists(secs, t, n))

\* Everything updateProject does besides storing the normalised sections
updateProjectEffects(secs, t, n, btns, layout) ==
    /\ n + IdsForHeader(secs) <= MaxIds
    /\ nextId' = n + IdsForHeader(secs)
    /\ windowUpdateProject' = TRUE
    /\ unsavedChanges' = TRUE
    /\ preview' = PreviewOf(t, Normalize(secs, t, n), btns, layout)
    /\ saveTimeout' = setTimeout(clearTimeout(saveTimeout))

updateProject(secs, t, n, btns, layout) ==
    /\ sections' = Normalize(secs, t, n)
    /\ updateProjectEffects(secs, t, n, btns, layout)

\* What a handler records about itself
Did(op, i, j, arg, notice, upd) ==
    /\ lastOp' = [op |-> op, i |-> i, j |-> j, arg |-> arg]
    /\ toast' = notice
    /\ updated' = upd

\* A handler that returns early without touching anything
Returned(op, i, j, arg, notice) ==
    /\ Did(op, i, j, arg, notice, FALSE)
    /\ UNCHANGED <<screen, title, sections, dom, preview, buttons, legacy, layoutStyle,
                   unsavedChanges, saveTimeout, saved, now, nextId, reads, initTimers,
                   windowAppState, windowUpdateProject>>

----------------------------------------------------------------------------
(* Persistence collaborator (LWB_Utils.saveProject / clearSavedProject) *)

NoProject == [title |-> <<>>, sections |-> <<>>, present |-> FALSE]

saveProject(t, secs) == [title |-> t, sections |-> secs, present |-> TRUE]

----------------------------------------------------------------------------
(* Section operations of editor.js.  Each is bound in the application to   *)
(* APP_STATE.currentProject with onUpdate = updateProject.                 *)

Directions == {"up", "down"}

SectionIndices == 0..(Len(sections) - 1)

NewSection(t) == Section(SectionIdAt(t), <<"New Section">>, "doc", FALSE, "true", <<>>)

\* addSection while the list holds fewer than limit sections
addSectionWithin(limit) ==
    /\ screen = "editor"
    /\ Len(sections) < limit
    /\ LET pushed == DefaultShowIcon(Append(sections, NewSection(now)))
       IN  /\ dom' = DomOf(pushed)
           /\ updateProject(pushed, title, nextId, buttons, layoutStyle)
    /\ Did("addSection", 0, 0, "", "Section added", TRUE)
    /\ UNCHANGED <<screen, title, buttons, legacy, layoutStyle, saved, now, reads,
                   initTimers, windowAppState>>

addSection == addSectionWithin(MaxSections)

\* a guard that only refuses to delete from an empty list
IsOnlySectionOffByOne(secs) == Len(secs) < 1

\* "Don't delete if it's the only section"
IsOnlySection(secs) == Len(secs) <= 1

deleteSection(index, confirmed) ==
    /\ screen = "editor"
    /\ IF IsOnlySection(sections)
       THEN Returned("deleteSection", index, 0, "", "Cannot delete the last section")
       ELSE IF ~confirmed
       THEN Returned("deleteSection", index, 0, "cancelled", "")
       ELSE /\ LET spliced == DefaultShowIcon(RemoveAt(sections, index + 1))
               IN  /\ dom' = DomOf(spliced)
                   /\ updateProject(spliced, title, nextId, buttons, layoutStyle)
            /\ Did("deleteSection", index, 0, "", "Section deleted", TRUE)
            /\ UNCHANGED <<screen, title, buttons, legacy, layoutStyle, saved, now, reads,
                           initTimers, windowAppState>>

\* a boundary move that goes on to re-render and update
CannotMoveFallsThrough(op, index, cindex, direction) ==
    /\ dom' = DomOf(DefaultShowIcon(sections))
    /\ updateProject(DefaultShowIcon(sections), title, nextId, buttons, layoutStyle)
    /\ Did(op, index, cindex, direction, "", TRUE)
    /\ UNCHANGED <<screen, title, buttons, legacy, layoutStyle, saved, now, reads,
                   initTimers, windowAppState>>

\* "return; // Can't move"
CannotMove(op, index, cindex, direction) == Returned(op, index, cindex, direction, "")

moveSection(index, direction) ==
    /\ screen = "editor"
    /\ IF direction = "up" /\ index > 0
       THEN /\ LET swapped == DefaultShowIcon(Swap(sections, index + 1, index))
               IN  /\ dom' = DomOf(swapped)
                   /\ updateProject(swapped, title, nextId, buttons, layoutStyle)
            /\ Did("moveSection", index, 0, direction, "", TRUE)
            /\ UNCHANGED <<screen, title, buttons, legacy, layoutStyle, saved, now, reads,
                           initTimers, windowAppState>>
       ELSE IF direction = "down" /\ index < Len(sections) - 1
       THEN /\ LET swapped == DefaultShowIcon(Swap(sections, index + 1, index + 2))
               IN  /\ dom' = DomOf(swapped)
                   /\ updateProject(swapped, title, nextId, buttons, layoutStyle)
            /\ Did("moveSection", index, 0, direction, "", TRUE)
            /\ UNCHANGED <<screen, title, buttons, legacy, layoutStyle, saved, now, reads,
                           initTimers, windowAppState>>
       ELSE CannotMove("moveSection", index, 0, direction)

\* Values typed into the section name field
NameInputs == {<<>>, <<" ">>, <<" ", " ">>, <<"Renamed">>}

\* What was typed, as the handler's record keeps it
NameKind(value) ==
    IF value = <<>> THEN "empty"
    ELSE IF \A k \in 1..Len(value) : IsSpace(value[k]) THEN "whitespace"
    ELSE "text"

\* the emptiness test without the trim
IsBlankNameUntrimmed(value) == ~Truthy(value)

\* !value.trim()
IsBlankName(value) == ~Truthy(Trim(value))

updateSectionName(index, value) ==
    /\ screen = "editor"
    /\ IF IsBlankName(value)
       THEN Returned("updateSectionName", index, 0, NameKind(value),
                     "Section name cannot be empty")
       ELSE /\ updateProject([sections EXCEPT ![index + 1].name = value],
                             title, nextId, buttons, layoutStyle)
            /\ Did("updateSectionName", index, 0, NameKind(value), "", TRUE)
            /\ UNCHANGED <<screen, title, dom, buttons, legacy, layoutStyle, saved, now,
                           reads, initTimers, windowAppState>>

----------------------------------------------------------------------------
(* Content operations of editor.js *)

ContentIndices(index) == 0..(Len(sections[index + 1].content) - 1)

\* a content change that re-renders the editor list and never calls onUpdate
AfterContentChangeRenderOnly(changed, op, index, cindex, arg, notice) ==
    /\ sections' = DefaultShowIcon(changed)
    /\ dom' = DomOf(sections')
    /\ Did(op, index, cindex, arg, notice, FALSE)
    /\ UNCHANGED <<screen, title, preview, buttons, legacy, layoutStyle, unsavedChanges,
                   saveTimeout, saved, now, nextId, reads, initTimers, windowAppState,
                   windowUpdateProject>>

AfterContentChange(changed, op, index, cindex, arg, notice) ==
    /\ dom' = DomOf(DefaultShowIcon(changed))
    /\ updateProject(DefaultShowIcon(changed), title, nextId, buttons, layoutStyle)
    /\ Did(op, index, cindex, arg, notice, TRUE)
    /\ UNCHANGED <<screen, title, buttons, legacy, layoutStyle, saved, now, reads,
                   initTimers, windowAppState>>

addTextToSection(index, r) ==
    /\ screen = "editor"
    /\ Len(sections[index + 1].content) < MaxContent
    /\ AfterContentChange(
           [sections EXCEPT ![index + 1].content =
               Append(@, TextBlock(<<"<p>New text content...</p>">>, createUniqueId(now, r)))],
           "addTextToSection", index, 0, "", "Text block added")

addImageToSection(index, r) ==
    /\ screen = "editor"
    /\ Len(sections[index + 1].content) < MaxContent
    /\ AfterContentChange(
           [sections EXCEPT ![index + 1].content =
               Append(@, ImageBlock(<<>>, createUniqueId(now, r)))],
           "addImageToSection", index, 0, "", "Image block added")

deleteContent(index, cindex, confirmed) ==
    /\ screen = "editor"
    /\ IF ~confirmed
       THEN Returned("deleteContent", index, cindex, "cancelled", "")
       ELSE AfterContentChange(
                [sections EXCEPT ![index + 1].content = RemoveAt(@, cindex + 1)],
                "deleteContent", index, cindex, "", "Content block deleted")

moveContent(index, cindex, direction) ==
    /\ screen = "editor"
    /\ LET content == sections[index + 1].content
       IN  IF direction = "up" /\ cindex > 0
           THEN AfterContentChange(
                    [sections EXCEPT ![index + 1].content = Swap(content, cindex + 1, cindex)],
                    "moveContent", index, cindex, direction, "")
           ELSE IF direction = "down" /\ cindex < Len(content) - 1
           THEN AfterContentChange(
                    [sections EXCEPT ![index + 1].content = Swap(content, cindex + 1, cindex + 2)],
                    "moveContent", index, cindex, direction, "")
           ELSE CannotMove("moveContent", index, cindex, direction)

----------------------------------------------------------------------------
(* Header and icon-visibility controls of editor.js.  Both read the        *)
(* project through window.APP_STATE and call window.updateProject only if  *)
(* it has been assigned; both re-render after the update.                  *)

AfterWindowUpdate(changed, op, index, arg) ==
    /\ IF windowUpdateProject
       THEN /\ sections' = DefaultShowIcon(Normalize(changed, title, nextId))
            /\ updateProjectEffects(changed, title, nextId, buttons, layoutStyle)
            /\ Did(op, index, 0, arg, "", TRUE)
       ELSE /\ sections' = DefaultShowIcon(changed)
            /\ Did(op, index, 0, arg, "", FALSE)
            /\ UNCHANGED <<nextId, windowUpdateProject, unsavedChanges, preview, saveTimeout>>
    /\ dom' = DomOf(sections')
    /\ UNCHANGED <<screen, title, buttons, legacy, layoutStyle, saved, now, reads,
                   initTimers, windowAppState>>

makeHeader(index) ==
    /\ screen = "editor"
    /\ IF ~windowAppState
       THEN Returned("makeHeader", index, 0, "no project", "")
       ELSE AfterWindowUpdate(
                [k \in 1..Len(sections) |-> [sections[k] EXCEPT !.isHeader = (k = index + 1)]],
                "makeHeader", index, "")

toggleSectionIcon(index, show) ==
    /\ screen = "editor"
    /\ IF ~windowAppState
       THEN Returned("toggleSectionIcon", index, 0, "no project", "")
       ELSE AfterWindowUpdate(
                [sections EXCEPT ![index + 1].showIcon = IF show THEN "true" ELSE "false"],
                "toggleSectionIcon", index, IF show THEN "true" ELSE "false")

----------------------------------------------------------------------------
(* Settings: the legacy fields and the buttons list *)

Absent == <<"#absent">>

Null == <<"#null">>

\* JavaScript truthiness of a field that may be absent, null or a string
JsTruthy(v) == v # Absent /\ v # Null /\ v # <<>>

NoLegacy ==
    [uploadedFile |-> Absent, uploadedFileName |-> Absent, downloadButtonText |-> Absent,
     contactButtonUrl |-> Absent, contactButtonText |-> Absent]

----------------------------------------------------------------------------
(* Application handlers (README.md listing of app.js) *)

\* a blank project whose "Content" section was left out
BlankSectionsHeaderOnly(n) ==
    << Section(UtilsCreateUniqueId(n + 1), <<"Header">>, "doc", TRUE, "undefined",
               <<TextBlock(<<"<h1>Title</h1>">>, UtilsCreateUniqueId(n + 2))>>) >>

BlankSections(n) ==
    << Section(UtilsCreateUniqueId(n + 1), <<"Header">>, "doc", TRUE, "undefined",
               <<TextBlock(<<"<h1>Title</h1>">>, UtilsCreateUniqueId(n + 2))>>),
       Section(UtilsCreateUniqueId(n + 3), <<"Content">>, "memo", FALSE, "undefined",
               <<TextBlock(<<"<h2>Section</h2>">>, UtilsCreateUniqueId(n + 4))>>) >>

createBlankWebsite ==
    /\ screen = "upload"
    /\ nextId + 4 <= MaxIds
    /\ initTimers < MaxInitTimers
    /\ title' = <<"Untitled Website">>
    /\ layoutStyle' = "single"
    /\ LET rendered == DefaultShowIcon(BlankSections(nextId))
       IN  /\ dom' = DomOf(rendered)
           /\ updateProject(rendered, title', nextId + 4, buttons, layoutStyle')
    /\ screen' = "editor"
    /\ initTimers' = initTimers + 1
    /\ Did("createBlankWebsite", 0, 0, "", "Blank website created", TRUE)
    /\ UNCHANGED <<buttons, legacy, saved, now, reads, windowAppState>>

\* setTimeout(() => initializeEditor(), 100) scheduled by showScreen('editor')
initializeEditor ==
    /\ initTimers > 0
    /\ initTimers' = initTimers - 1
    /\ sections' = DefaultShowIcon(sections)
    /\ dom' = DomOf(sections')
    /\ preview' = PreviewOf(title, sections', buttons, layoutStyle)
    /\ Did("initializeEditor", 0, 0, "", "", FALSE)
    /\ UNCHANGED <<screen, title, buttons, legacy, layoutStyle, unsavedChanges, saveTimeout,
                   saved, now, nextId, reads, windowAppState, windowUpdateProject>>

resetToUploadScreen(op, arg) ==
    /\ title' = <<"My Website">>
    /\ sections' = <<>>
    /\ buttons' = <<>>
    /\ legacy' = NoLegacy
    /\ layoutStyle' = "single"
    /\ unsavedChanges' = FALSE
    /\ screen' = "upload"
    /\ saved' = NoProject
    /\ Did(op, 0, 0, arg, "", FALSE)
    /\ UNCHANGED <<dom, preview, saveTimeout, now, nextId, reads, initTimers,
                   windowAppState, windowUpdateProject>>

goHome(confirmed) ==
    IF screen = "editor" /\ unsavedChanges /\ ~confirmed
    THEN Returned("goHome", 0, 0, "cancelled", "")
    ELSE resetToUploadScreen("goHome", "")

----------------------------------------------------------------------------
(* File import *)

MaxFileSize == 52428800

MaxNameLength == 255

AllowedTypes == {"pdf", "pptx", "docx", "txt", "md", "png", "jpg", "jpeg", "gif", "webp",
                 "svg", "tiff"}

\* file.name.split('.').pop().toLowerCase()
Extension(name) == IF name = <<>> THEN "" ELSE Lower(name[Len(name)])

isValidFileType(file) == Extension(file.name) \in AllowedTypes

\* validateFile returns the list of error notices
validateFile(file) ==
    (IF file.size > MaxFileSize THEN <<"File too large. Maximum size is 50MB.">> ELSE <<>>)
    \o (IF ~isValidFileType(file) THEN <<"Unsupported file type">> ELSE <<>>)
    \o (IF file.nameLength > MaxNameLength THEN <<"File name too long">> ELSE <<>>)

\* fileName.replace(/\.[^/.]+$/, '')
StripExtension(name) ==
    IF Len(name) >= 2 /\ name[Len(name) - 1] = "." /\ name[Len(name)] # "."
    THEN SubSeq(name, 1, Len(name) - 2)
    ELSE name

Files ==
    { [name |-> <<"poster", ".", "txt">>, size |-> 1000, nameLength |-> 10],
      [name |-> <<"huge", ".", "pdf">>, size |-> MaxFileSize + 1, nameLength |-> 8] }

ImportedHeader(name) ==
    Section(LiteralId("header"), <<"Header">>, "doc", TRUE, "undefined",
            <<TextBlock(<<"<h1>">> \o StripExtension(name) \o <<"</h1>">>, NoId)>>)

ImportedSection(id, name) ==
    Section(LiteralId(id), <<name>>, "doc", FALSE, "undefined", <<TextBlock(<<"<p>text</p>">>, NoId)>>)

\* createBasicSections / the single-section fallback of parseTextIntoSections
BasicSections(name) == <<ImportedHeader(name), ImportedSection("content", "Content")>>

\* parseTextIntoSections with one recognised heading
ParsedSections(name) == <<ImportedHeader(name), ImportedSection("abstract", "Abstract")>>

\* What the import handlers deliver for a file of that name: the parsed
\* sections, or the basic ones when its text has no recognised heading
Imports(name) == {ParsedSections(name), BasicSections(name)}

handleFile(file) ==
    /\ screen \in {"upload", "loading"}
    /\ IF validateFile(file) # <<>>
       THEN Returned("handleFile", 0, 0, "rejected", Head(validateFile(file)))
       ELSE /\ Cardinality(reads) < MaxReads
            /\ file \notin reads
            /\ reads' = reads \cup {file}
            /\ screen' = "loading"
            /\ Did("handleFile", 0, 0, "", "", FALSE)
            /\ UNCHANGED <<title, sections, dom, preview, buttons, legacy, layoutStyle,
                           unsavedChanges, saveTimeout, saved, now, nextId, initTimers,
                           windowAppState, windowUpdateProject>>

\* a success callback after which no other read delivers any more
importSuccessCancelsOthers(file, imported) ==
    /\ file \in reads
    /\ initTimers < MaxInitTimers
    /\ reads' = {}
    /\ title' = IF Truthy(StripExtension(file.name)) THEN StripExtension(file.name)
                ELSE <<"My Website">>
    /\ updateProject(ensureHeaderExists(imported, title', nextId), title',
                     nextId + IdsForHeader(imported), buttons, layoutStyle)
    /\ screen' = "editor"
    /\ initTimers' = initTimers + 1
    /\ Did("importSuccess", 0, 0, "", "File processed successfully!", TRUE)
    /\ UNCHANGED <<dom, buttons, legacy, layoutStyle, saved, now, windowAppState>>

\* the success callback handed to LWB_FileHandlers.handleFile
importSuccess(file, imported) ==
    /\ file \in reads
    /\ initTimers < MaxInitTimers
    /\ reads' = reads \ {file}
    /\ title' = IF Truthy(StripExtension(file.name)) THEN StripExtension(file.name)
                ELSE <<"My Website">>
    /\ updateProject(ensureHeaderExists(imported, title', nextId), title',
                     nextId + IdsForHeader(imported), buttons, layoutStyle)
    /\ screen' = "editor"
    /\ initTimers' = initTimers + 1
    /\ Did("importSuccess", 0, 0, "", "File processed successfully!", TRUE)
    /\ UNCHANGED <<dom, buttons, legacy, layoutStyle, saved, now, windowAppState>>

\* an error callback that throws the project away
importErrorClearsProject(file) ==
    /\ file \in reads
    /\ reads' = reads \ {file}
    /\ screen' = "upload"
    /\ title' = <<"My Website">>
    /\ sections' = <<>>
    /\ Did("importError", 0, 0, "", "File processing error", FALSE)
    /\ UNCHANGED <<dom, preview, buttons, legacy, layoutStyle,
                   unsavedChanges, saveTimeout, saved, now, nextId, initTimers,
                   windowAppState, windowUpdateProject>>

\* the error callback handed to LWB_FileHandlers.handleFile
importError(file) ==
    /\ file \in reads
    /\ reads' = reads \ {file}
    /\ screen' = "upload"
    /\ Did("importError", 0, 0, "", "File processing error", FALSE)
    /\ UNCHANGED <<title, sections, dom, preview, buttons, legacy, layoutStyle,
                   unsavedChanges, saveTimeout, saved, now, nextId, initTimers,
                   windowAppState, windowUpdateProject>>

----------------------------------------------------------------------------
(* Saving *)

\* the 1000 ms of the oldest waiting debounce timer run out
timerExpires ==
    /\ \E k \in 1..Len(saveTimeout) :
          /\ saveTimeout[k] = "waiting"
          /\ \A j \in 1..(k - 1) : saveTimeout[j] = "due"
          /\ saveTimeout' = [saveTimeout EXCEPT ![k] = "due"]
    /\ Did("timerExpires", 0, 0, "", "", FALSE)
    /\ UNCHANGED <<screen, title, sections, dom, preview, buttons, legacy, layoutStyle,
                   unsavedChanges, saved, now, nextId, reads, initTimers, windowAppState,
                   windowUpdateProject>>

\* the callback of the debounce timer started by updateProject
debouncedSave ==
    /\ \E k \in 1..Len(saveTimeout) :
          /\ saveTimeout[k] = "due"
          /\ saveTimeout' = RemoveAt(saveTimeout, k)
    /\ saved' = saveProject(title, sections)
    /\ unsavedChanges' = FALSE
    /\ Did("debouncedSave", 0, 0, "", "", FALSE)
    /\ UNCHANGED <<screen, title, sections, dom, preview, buttons, legacy, layoutStyle,
                   now, nextId, reads, initTimers, windowAppState, windowUpdateProject>>

\* an interval callback that saves whether or not changes are flagged
autoSaveSweepAlways ==
    /\ saved' = saveProject(title, sections)
    /\ unsavedChanges' = FALSE
    /\ Did("autoSaveSweep", 0, 0, "saved", "", FALSE)
    /\ UNCHANGED <<screen, title, sections, dom, preview, buttons, legacy, layoutStyle,
                   saveTimeout, now, nextId, reads, initTimers, windowAppState,
                   windowUpdateProject>>

\* the 30 second interval of initializeAutoSave
autoSaveSweep ==
    IF unsavedChanges
    THEN /\ saved' = saveProject(title, sections)
         /\ unsavedChanges' = FALSE
         /\ Did("autoSaveSweep", 0, 0, "saved", "", FALSE)
         /\ UNCHANGED <<screen, title, sections, dom, preview, buttons, legacy, layoutStyle,
                        saveTimeout, now, nextId, reads, initTimers, windowAppState,
                        windowUpdateProject>>
    ELSE Returned("autoSaveSweep", 0, 0, "", "")

\* Ctrl/Cmd+S
saveShortcut ==
    IF unsavedChanges
    THEN /\ saved' = saveProject(title, sections)
         /\ unsavedChanges' = FALSE
         /\ Did("saveShortcut", 0, 0, "saved", "Project saved", FALSE)
         /\ UNCHANGED <<screen, title, sections, dom, preview, buttons, legacy, layoutStyle,
                        saveTimeout, now, nextId, reads, initTimers, windowAppState,
                        windowUpdateProject>>
    ELSE Returned("saveShortcut", 0, 0, "", "")

\* the beforeunload listener: with unsaved changes it asks the browser for
\* its leave-page warning (preventDefault, returnValue = ''); the page stays
beforeUnload ==
    IF unsavedChanges
    THEN Returned("beforeUnload", 0, 0, "warned", "")
    ELSE Returned("beforeUnload", 0, 0, "", "")

\* the clock advances between handlers
Tick ==
    /\ now < MaxClock
    /\ now' = now + 1
    /\ UNCHANGED <<screen, title, sections, dom, preview, buttons, legacy, layoutStyle,
                   unsavedChanges, saveTimeout, saved, nextId, reads, initTimers,
                   windowAppState, windowUpdateProject, toast, updated, lastOp>>

----------------------------------------------------------------------------
(* The application after initializeApp with nothing in storage: the empty  *)
(* default project has been given a header by ensureHeaderExists.          *)

Init ==
    /\ screen = "upload"
    /\ title = <<"My Website">>
    /\ sections = ensureHeaderExists(<<>>, <<"My Website">>, 0)
    /\ nextId = 2
    /\ dom = <<>>
    /\ preview = PreviewOf(<<>>, <<>>, <<>>, "single")
    /\ buttons = <<>>
    /\ legacy = NoLegacy
    /\ layoutStyle = "single"
    /\ unsavedChanges = FALSE
    /\ saveTimeout = <<>>
    /\ saved = NoProject
    /\ now = 0
    /\ reads = {}
    /\ initTimers = 0
    /\ windowAppState \in BOOLEAN
    /\ windowUpdateProject = FALSE
    /\ toast = ""
    /\ updated = FALSE
    /\ lastOp = [op |-> "initializeApp", i |-> 0, j |-> 0, arg |-> ""]

\* The structural operations on the section list, the two ways a project
\* is created, and the way back to the upload screen
Next ==
    \/ addSection
    \/ \E index \in SectionIndices, confirmed \in BOOLEAN : deleteSection(index, confirmed)
    \/ \E index \in SectionIndices, direction \in Directions : moveSection(index, direction)
    \/ \E index \in SectionIndices : makeHeader(index)
    \/ createBlankWebsite
    \/ initializeEditor
    \/ \E confirmed \in BOOLEAN : goHome(confirmed)
    \/ \E file \in Files : handleFile(file)
    \/ \E file \in reads : \E imported \in Imports(file.name) : importSuccess(file, imported)
    \/ \E file \in reads : importError(file)
    \/ Tick

Spec == Init /\ [][Next]_vars

\* The text-block operations on a blank project (deletions confirmed), with
\* the section moves, within one millisecond (the blocks differ by the random
\* part of their ids)
NextContent ==
    \/ createBlankWebsite
    \/ initializeEditor
    \/ \E index \in SectionIndices, direction \in Directions : moveSection(index, direction)
    \/ \E index \in SectionIndices, r \in Rand : addTextToSection(index, r)
    \/ \E index \in SectionIndices :
         \E cindex \in ContentIndices(index) : deleteContent(index, cindex, TRUE)
    \/ \E index \in SectionIndices :
         \E cindex \in ContentIndices(index), direction \in Directions :
            moveContent(index, cindex, direction)

\* The start when APP_STATE, declared with let, is no property of window
InitLexical == Init /\ ~windowAppState

SpecContent == InitLexical /\ [][NextContent]_vars

----------------------------------------------------------------------------
(* ensureHeaderExists and renderSections applied to a project as it comes  *)
(* out of loadSavedProject: any list of up to MaxLoaded sections, or the   *)
(* empty default project.                                                  *)

MaxLoaded == 3

\* Section k of a saved project has the id <<"loaded", k, 0>>
LoadedSection(k, isHeader, showIcon) ==
    Section(<<"loaded", k, 0>>, <<"Part">>, "doc", isHeader, showIcon,
            <<TextBlock(<<"<p>text</p>">>, <<"block", k, 0>>)>>)

\* The shapes of a saved project: per section, its header flag and showIcon
LoadedProjects ==
    UNION { [1..len -> [isHeader : BOOLEAN, showIcon : {"undefined", "true", "false"}]]
            : len \in 0..MaxLoaded }

LoadedSections(shape) ==
    [k \in 1..Len(shape) |-> LoadedSection(k, shape[k].isHeader, shape[k].showIcon)]

InitLoad ==
    /\ screen = "upload"
    /\ title \in {<<"My Website">>, <<>>}
    /\ \E shape \in LoadedProjects : sections = LoadedSections(shape)
    /\ nextId = 0
    /\ dom = <<>>
    /\ preview = PreviewOf(<<>>, <<>>, <<>>, "single")
    /\ buttons = <<>>
    /\ legacy = NoLegacy
    /\ layoutStyle = "single"
    /\ unsavedChanges = FALSE
    /\ saveTimeout = <<>>
    /\ saved = NoProject
    /\ now = 0
    /\ reads = {}
    /\ initTimers = 0
    /\ windowAppState \in BOOLEAN
    /\ windowUpdateProject = FALSE
    /\ toast = ""
    /\ updated = FALSE
    /\ lastOp = [op |-> "loadSavedProject", i |-> 0, j |-> 0, arg |-> ""]

\* the call ensureHeaderExists(APP_STATE.currentProject)
ensureHeaderExistsCall ==
    /\ nextId + IdsForHeader(sections) <= MaxIds
    /\ sections' = ensureHeaderExists(sections, title, nextId)
    /\ nextId' = nextId + IdsForHeader(sections)
    /\ Did("ensureHeaderExists", 0, 0, "", "", FALSE)
    /\ UNCHANGED <<screen, title, dom, preview, buttons, legacy, layoutStyle, unsavedChanges,
                   saveTimeout, saved, now, reads, initTimers, windowAppState,
                   windowUpdateProject>>

\* the call renderSections(APP_STATE.currentProject)
renderSectionsCall ==
    /\ sections' = DefaultShowIcon(sections)
    /\ dom' = DomOf(sections')
    /\ Did("renderSections", 0, 0, "", "", FALSE)
    /\ UNCHANGED <<screen, title, preview, buttons, legacy, layoutStyle, unsavedChanges,
                   saveTimeout, saved, now, nextId, reads, initTimers, windowAppState,
                   windowUpdateProject>>

NextLoad == ensureHeaderExistsCall \/ renderSectionsCall

SpecLoad == InitLoad /\ [][NextLoad]_vars

----------------------------------------------------------------------------
(* Buttons model (README.md listing of app.js) *)

Button(id, type, label, file, href, email) ==
    [id |-> id, type |-> type, label |-> label, file |-> file, href |-> href, email |-> email]

ButtonTypes == {"file", "link", "email"}

DefaultLabel(type) ==
    IF type = "file" THEN <<"Download">>
    ELSE IF type = "link" THEN <<"Visit site">> ELSE <<"Email us">>

\* const newBtn = { id, type, label }; link and email get an empty field
NewButton(id, type) ==
    Button(id, type, DefaultLabel(type), Absent,
           IF type = "link" THEN <<>> ELSE Absent,
           IF type = "email" THEN <<>> ELSE Absent)

AfterButtonsChange(btns, op, i, j, arg) ==
    /\ buttons' = btns
    /\ updateProject(sections, title, nextId, btns, layoutStyle)
    /\ Did(op, i, j, arg, "", TRUE)
    /\ UNCHANGED <<screen, title, dom, legacy, layoutStyle, saved, now, reads, initTimers,
                   windowAppState>>

\* a cap test that lets a fourth button through
ButtonsFullOffByOne(btns) == Len(btns) > MaxButtons

\* buttons.length >= 3
ButtonsFull(btns) == Len(btns) >= MaxButtons

addButton(type, r) ==
    IF type \notin ButtonTypes
    THEN Returned("addButton", 0, 0, "ignored", "")
    ELSE IF ButtonsFull(buttons)
    THEN Returned("addButton", 0, 0, type, "You can only add up to 3 buttons")
    ELSE AfterButtonsChange(Append(buttons, NewButton(createUniqueId(now, r), type)),
                            "addButton", 0, 0, type)

\* buttons.findIndex(b => b.id === id); 0 when there is none
FindIndex(btns, id) ==
    IF \E k \in 1..Len(btns) : btns[k].id = id
    THEN SetMin({k \in 1..Len(btns) : btns[k].id = id})
    ELSE 0

\* { ...button, ...updates }: a field of updates that is Absent is not in updates
Merge(b, updates) ==
    [f \in DOMAIN b |->
        IF f \in DOMAIN updates /\ updates[f] # Absent THEN updates[f] ELSE b[f]]

NoUpdates == [label |-> Absent, file |-> Absent, href |-> Absent, email |-> Absent]

\* labelInput.onchange
LabelUpdate == [NoUpdates EXCEPT !.label = <<"Custom">>]

\* a value control that writes href whatever the type
ValueUpdatesAlwaysHref(b) ==
    IF b.type = "file" THEN {[NoUpdates EXCEPT !.file = <<"file:handout.pdf">>]}
    ELSE {[NoUpdates EXCEPT !.href = <<"x.org">>]}

\* valueInput.onchange and the completed file upload: a new value of the
\* field of the button's type
ValueUpdates(b) ==
    IF b.type = "file" THEN {[NoUpdates EXCEPT !.file = <<"file:handout.pdf">>]}
    ELSE IF b.type = "email" THEN {[NoUpdates EXCEPT !.email = <<"me", "@", "x.org">>]}
    ELSE {[NoUpdates EXCEPT !.href = <<"x.org">>]}

updateButton(id, updates) ==
    IF FindIndex(buttons, id) = 0
    THEN Returned("updateButton", 0, 0, "not found", "")
    ELSE AfterButtonsChange(
             [buttons EXCEPT ![FindIndex(buttons, id)] = Merge(@, updates)],
             "updateButton", FindIndex(buttons, id) - 1, 0, "")

removeButton(id) ==
    LET Other(b) == b.id # id
    IN  AfterButtonsChange(SelectSeq(buttons, Other), "removeButton", 0, 0, "")

\* a reordering that exchanges the two buttons
reorderButtonsBySwap(fromIndex, toIndex) ==
    IF fromIndex < 0 \/ toIndex < 0 \/ fromIndex >= Len(buttons) \/ toIndex >= Len(buttons)
    THEN Returned("reorderButtons", fromIndex, toIndex, "out of bounds", "")
    ELSE AfterButtonsChange(Swap(buttons, fromIndex + 1, toIndex + 1),
                            "reorderButtons", fromIndex, toIndex, "")

reorderButtons(fromIndex, toIndex) ==
    IF fromIndex < 0 \/ toIndex < 0 \/ fromIndex >= Len(buttons) \/ toIndex >= Len(buttons)
    THEN Returned("reorderButtons", fromIndex, toIndex, "out of bounds", "")
    ELSE AfterButtonsChange(
             InsertAt(RemoveAt(buttons, fromIndex + 1), toIndex + 1, buttons[fromIndex + 1]),
             "reorderButtons", fromIndex, toIndex, "")

----------------------------------------------------------------------------
(* migrateLegacySettings *)

\* url.match(/^https?:/i)
MatchesHttpScheme(url) ==
    /\ Len(url) >= 2
    /\ Lower(url[1]) \in {"http", "https"}
    /\ url[2] = ":"

\* an email test that only looks for the '@'
LooksLikeEmailAtOnly(url) == Includes(url, "@")

\* "treat as email if contains '@' and doesn't look like a URL"
LooksLikeEmail(url) == Includes(url, "@") /\ ~MatchesHttpScheme(url)

MigratedFileButton(settings, id) ==
    Button(id, "file",
           IF JsTruthy(settings.downloadButtonText) THEN settings.downloadButtonText
           ELSE <<"Download">>,
           settings.uploadedFile, Absent, Absent)

MigratedContactButton(settings, id) ==
    LET url == Trim(settings.contactButtonUrl)
        label == IF JsTruthy(settings.contactButtonText) THEN settings.contactButtonText
                 ELSE <<"Contact Us">>
    IN  IF LooksLikeEmail(url)
        THEN Button(id, "email", label, Absent, Absent, url)
        ELSE Button(id, "link", label, Absent, url, Absent)

\* the list migrateLegacySettings builds when settings.buttons is empty
MigratedButtons(settings, id1, id2) ==
    (IF JsTruthy(settings.uploadedFile) THEN <<MigratedFileButton(settings, id1)>> ELSE <<>>)
    \o (IF JsTruthy(settings.contactButtonUrl)
        THEN <<MigratedContactButton(settings, id2)>> ELSE <<>>)

\* a migration that forgets to delete the legacy fields when it returns early
LegacyAfterMigrationKeptIfButtons(btns, settings) == IF btns # <<>> THEN settings ELSE NoLegacy

\* the five delete statements, on either path
LegacyAfterMigration(btns, settings) == NoLegacy

migrateLegacySettings(r1, r2) ==
    /\ buttons' = IF buttons # <<>> THEN buttons
                  ELSE SubSeq(MigratedButtons(legacy, createUniqueId(now, r1),
                                              createUniqueId(now, r2)),
                              1, Min2(MaxButtons,
                                      Len(MigratedButtons(legacy, createUniqueId(now, r1),
                                                          createUniqueId(now, r2)))))
    /\ legacy' = LegacyAfterMigration(buttons, legacy)
    /\ Did("migrateLegacySettings", 0, 0, "", "", FALSE)
    /\ UNCHANGED <<screen, title, sections, dom, preview, layoutStyle, unsavedChanges,
                   saveTimeout, saved, now, nextId, reads, initTimers, windowAppState,
                   windowUpdateProject>>

----------------------------------------------------------------------------
(* migrateLegacySettings on settings drawn from the legacy shapes *)

LegacyFiles == {Absent, Null, <<"file:a.pdf">>}

LegacyTexts == {Absent, <<>>, <<"Custom text">>}

LegacyUrls ==
    { Absent, <<>>, <<" ">>,
      <<"foo", "@", "bar.com">>,
      <<" ", "foo", "@", "bar.com", " ">>,
      <<"https", ":", "//", "bar.com">>,
      <<"https", ":", "//", "foo", "@", "bar.com">>,
      <<"HTTP", ":", "//", "foo", "@", "bar.com">>,
      <<"http", ":", "foo", "@", "bar.com">>,
      <<"mailto", ":", "foo", "@", "bar.com">> }

LegacySettings ==
    [uploadedFile : LegacyFiles, uploadedFileName : {Absent, <<"a.pdf">>},
     downloadButtonText : LegacyTexts, contactButtonUrl : LegacyUrls,
     contactButtonText : LegacyTexts]

\* buttons a settings object may already hold when the migration runs
StaleButtons == {<<>>, <<NewButton(createUniqueId(0, 0), "link")>>}

InitMigrate ==
    /\ screen = "upload"
    /\ title = <<"My Website">>
    /\ sections = <<>>
    /\ nextId = 0
    /\ dom = <<>>
    /\ preview = PreviewOf(<<>>, <<>>, <<>>, "single")
    /\ buttons \in StaleButtons
    /\ legacy \in LegacySettings
    /\ layoutStyle = "single"
    /\ unsavedChanges = FALSE
    /\ saveTimeout = <<>>
    /\ saved = NoProject
    /\ now = 0
    /\ reads = {}
    /\ initTimers = 0
    /\ windowAppState = FALSE
    /\ windowUpdateProject = FALSE
    /\ toast = ""
    /\ updated = FALSE
    /\ lastOp = [op |-> "loadSavedProject", i |-> 0, j |-> 0, arg |-> ""]

NextMigrate == \E r1, r2 \in Rand : migrateLegacySettings(r1, r2)

SpecMigrate == InitMigrate /\ [][NextMigrate]_vars

----------------------------------------------------------------------------
(* The buttons manager on a running application *)

\* an id no button has
UnknownId == createUniqueId(0, 0)

\* The ids the rendered controls of the buttons manager are bound to
RenderedButtonIds == {buttons[k].id : k \in 1..Len(buttons)}

NextButtons ==
    \/ \E type \in ButtonTypes \cup {"video"}, r \in Rand : addButton(type, r)
    \/ \E k \in 1..Len(buttons) :
         \E updates \in ValueUpdates(buttons[k]) : updateButton(buttons[k].id, updates)
    \/ updateButton(UnknownId, LabelUpdate)
    \/ \E id \in RenderedButtonIds \cup {UnknownId} : removeButton(id)
    \/ \E fromIndex \in 0..(MaxButtons - 1) :
         \E toIndex \in {fromIndex - 1, fromIndex + 1} : reorderButtons(fromIndex, toIndex)
    \/ \E r1, r2 \in Rand : migrateLegacySettings(r1, r2)

SpecButtons == InitLexical /\ [][NextButtons]_vars

----------------------------------------------------------------------------
(* Properties of the section list *)

ExactlyOneHeaderAtFront(secs) ==
    /\ Cardinality(HeaderIndices(secs)) = 1
    /\ secs[1].isHeader

\* The step is a run of handler op (the clock does not advance inside a handler)
Ran(op) == lastOp'.op = op /\ now' = now

StructuralOps ==
    {"addSection", "deleteSection", "moveSection", "makeHeader", "importSuccess",
     "createBlankWebsite"}

C7_DeleteLastSection ==
    [][ Ran("deleteSection") =>
          /\ (Len(sections) = 1 =>
                 /\ sections' = sections
                 /\ toast' = "Cannot delete the last section"
                 /\ ~updated')
          /\ (/\ Len(sections) = 2
              /\ sections[1].isHeader
              /\ ~sections[2].isHeader
              /\ lastOp'.i = 1
              /\ lastOp'.arg # "cancelled"
              =>
                 /\ Len(sections') = 1
                 /\ sections'[1].id = sections[1].id
                 /\ sections'[1].content = sections[1].content
                 /\ sections'[1].name = sections[1].name
                 /\ sections'[1].isHeader
                 /\ toast' = "Section deleted") ]_vars

\* the only remaining section is the header and a deletion has just been refused
C7_Witness ==
    /\ lastOp.op = "deleteSection"
    /\ toast = "Cannot delete the last section"
    /\ ~updated
    /\ Len(sections) = 1
    /\ sections[1].isHeader

\* C8: right after createBlankWebsite the project has exactly two sections,
\* the header first and the non-header section named "Content" second, and
\* the layout style is "single".
C8_BlankProject ==
    lastOp.op = "createBlankWebsite" =>
        /\ Len(sections) = 2
        /\ sections[1].isHeader
        /\ ~sections[2].isHeader
        /\ sections[2].name = <<"Content">>
        /\ layoutStyle = "single"

C8_Witness ==
    /\ lastOp.op = "createBlankWebsite"
    /\ updated
    /\ screen = "editor"
    /\ Len(sections) = 2

\* C10: deleteSection on the header of a project with two or more sections
\* is refused with a notice, and the header section stays in place.
C10_HeaderDeletionRefused ==
    [][ (/\ Ran("deleteSection")
         /\ lastOp'.arg # "cancelled"
         /\ Len(sections) >= 2
         /\ sections[lastOp'.i + 1].isHeader)
        => (/\ sections' = sections
            /\ toast' # ""
            /\ toast' # "Section deleted") ]_vars

\* What a handler that returns early leaves alone: the project, the editor
\* and the preview as rendered, and the save scheduling
NothingRenderedOrScheduled ==
    /\ ~updated'
    /\ UNCHANGED <<title, sections, dom, preview, unsavedChanges, saveTimeout, saved>>

\* C6: moveSection(0, 'up') and moveSection(last, 'down') leave the section
\* list unchanged, moveContent at the first block with 'up' or at the last
\* block with 'down' leaves the content list unchanged, and in these cases
\* updateProject is not called: nothing is re-rendered and no save is scheduled.
C6_BoundaryMovesAreNoOps ==
    [][ /\ (/\ Ran("moveSection")
            /\ \/ (lastOp'.i = 0 /\ lastOp'.arg = "up")
               \/ (lastOp'.i = Len(sections) - 1 /\ lastOp'.arg = "down"))
           => NothingRenderedOrScheduled
        /\ (/\ Ran("moveContent")
            /\ \/ (lastOp'.j = 0 /\ lastOp'.arg = "up")
               \/ (/\ lastOp'.j = Len(sections[lastOp'.i + 1].content) - 1
                   /\ lastOp'.arg = "down"))
           => NothingRenderedOrScheduled ]_vars

\* the last of two content blocks was asked to move down and nothing happened
C6_Witness ==
    /\ lastOp.op = "moveContent"
    /\ lastOp.arg = "down"
    /\ lastOp.j = 1
    /\ Len(sections[lastOp.i + 1].content) = 2
    /\ ~updated

\* C5: a render pass gives showIcon = true to every section that had no
\* showIcon, keeps every explicit showIcon, and changes no other field of
\* any section and not the order of the sections.
C5_RenderDefaultsShowIcon ==
    [][ Ran("renderSections") =>
          /\ Len(sections') = Len(sections)
          /\ \A k \in 1..Len(sections) :
                /\ sections'[k].showIcon =
                      IF sections[k].showIcon = "undefined" THEN "true"
                      ELSE sections[k].showIcon
                /\ [sections'[k] EXCEPT !.showIcon = "any"] =
                      [sections[k] EXCEPT !.showIcon = "any"]
          /\ title' = title ]_vars

\* a rendered project that keeps an explicitly hidden icon next to a shown one
C5_Witness ==
    /\ lastOp.op = "renderSections"
    /\ dom = DomOf(sections)
    /\ \E k \in 1..Len(sections) : sections[k].showIcon = "false"
    /\ \E k \in 1..Len(sections) : sections[k].showIcon = "true"

\* C9: ensureHeaderExists applied right after ensureHeaderExists changes
\* nothing: it adds no section, moves none and changes no isHeader flag.
C9_EnsureHeaderIdempotent ==
    [][ (lastOp.op = "ensureHeaderExists" /\ Ran("ensureHeaderExists"))
        => (sections' = sections /\ nextId' = nextId) ]_vars

\* the second of two applications in a row, on a project whose header had
\* to be promoted past another section
C9_Witness ==
    /\ lastOp.op = "ensureHeaderExists"
    /\ Len(sections) >= 3
    /\ sections[1].isHeader
    /\ sections[1].id = <<"loaded", 3, 0>>

----------------------------------------------------------------------------
(* Properties of the buttons list and of the legacy migration *)

\* C2: the buttons list never has more than three entries, and addButton
\* with a button type, called on a list of three, leaves the list unchanged
\* and raises the rejection notice.
C2_ButtonCap ==
    [][ /\ Len(buttons) <= MaxButtons
        /\ Len(buttons') <= MaxButtons
        /\ (Ran("addButton") /\ lastOp'.arg \in ButtonTypes /\ Len(buttons) = MaxButtons)
           => (buttons' = buttons /\ toast' = "You can only add up to 3 buttons") ]_vars

\* a fourth button has just been refused
C2_Witness ==
    /\ lastOp.op = "addButton"
    /\ lastOp.arg \in ButtonTypes
    /\ toast = "You can only add up to 3 buttons"
    /\ ~updated
    /\ Len(buttons) = MaxButtons

LegacyFields ==
    {"uploadedFile", "uploadedFileName", "downloadButtonText", "contactButtonUrl",
     "contactButtonText"}

NoLegacyFieldPresent(settings) == \A f \in LegacyFields : settings[f] = Absent

\* C3: after a run of migrateLegacySettings no legacy field is present, and
\* a run that follows a run leaves the buttons list as the first run left it.
C3_MigrationIdempotent ==
    [][ Ran("migrateLegacySettings") =>
          /\ NoLegacyFieldPresent(legacy')
          /\ (lastOp.op = "migrateLegacySettings" => buttons' = buttons) ]_vars

\* both legacy buttons have been migrated and the legacy fields are gone
C3_Witness ==
    /\ lastOp.op = "migrateLegacySettings"
    /\ Len(buttons) = 2
    /\ NoLegacyFieldPresent(legacy)

\* The label a migrated button gets: the legacy text, or the default
LabelOr(text, default) == IF JsTruthy(text) THEN text ELSE default

\* The list the migration is to emit from an empty buttons list, as types
\* and labels: a file button iff uploadedFile is set, then a contact button
\* iff contactButtonUrl is set, of type email iff IsEmail holds of the URL
EmitsFileThenContact(settings, btns, IsEmail(_)) ==
    LET hasFile == JsTruthy(settings.uploadedFile)
        hasContact == JsTruthy(settings.contactButtonUrl)
        nFile == IF hasFile THEN 1 ELSE 0
    IN  /\ Len(btns) = nFile + (IF hasContact THEN 1 ELSE 0)
        /\ hasFile =>
              /\ btns[1].type = "file"
              /\ btns[1].label = LabelOr(settings.downloadButtonText, <<"Download">>)
        /\ hasContact =>
              /\ btns[nFile + 1].type =
                    IF IsEmail(Trim(settings.contactButtonUrl)) THEN "email" ELSE "link"
              /\ btns[nFile + 1].label = LabelOr(settings.contactButtonText, <<"Contact Us">>)

\* the URL begins with http:// or https:// (in any letter case)
HasHttpSlashesPrefix(url) ==
    /\ Len(url) >= 3
    /\ Lower(url[1]) \in {"http", "https"}
    /\ url[2] = ":"
    /\ url[3] = "//"

\* the URL begins with http: or https: (in any letter case)
HasHttpSchemePrefix(url) ==
    /\ Len(url) >= 2
    /\ Lower(url[1]) \in {"http", "https"}
    /\ url[2] = ":"

EmailUnlessHttpSlashes(url) == Includes(url, "@") /\ ~HasHttpSlashesPrefix(url)

EmailUnlessHttpScheme(url) == Includes(url, "@") /\ ~HasHttpSchemePrefix(url)

\* C4 as claimed: from an empty buttons list the migration emits the file
\* button, then the contact button, which is an email button iff the URL
\* contains '@' and does not begin with http:// or https://.
C4_MigrationAsClaimed ==
    [][ (Ran("migrateLegacySettings") /\ buttons = <<>>)
        => EmitsFileThenContact(legacy, buttons', EmailUnlessHttpSlashes) ]_vars

\* C4 as amended: the contact button is an email button iff the trimmed URL
\* contains '@' and does not begin with the scheme http: or https: (in any
\* letter case, with or without the two slashes).
C4_MigrationEmitsButtons ==
    [][ (Ran("migrateLegacySettings") /\ buttons = <<>>)
        => EmitsFileThenContact(legacy, buttons', EmailUnlessHttpScheme) ]_vars

\* the scenario: a file with the default label, then the email button
C4_Witness ==
    /\ lastOp.op = "migrateLegacySettings"
    /\ Len(buttons) = 2
    /\ buttons[1].type = "file"
    /\ buttons[1].label = <<"Download">>
    /\ buttons[1].file = <<"file:a.pdf">>
    /\ buttons[2].type = "email"
    /\ buttons[2].label = <<"Contact Us">>
    /\ buttons[2].email = <<"foo", "@", "bar.com">>

----------------------------------------------------------------------------
(* The header under the section moves *)

----------------------------------------------------------------------------
(* The editor's operations together.  A project is built up (sections      *)
(* added and deleted, text blocks added, each with a random id part not    *)
(* yet used in its section) and then edited in place once.                 *)

GrowingOps ==
    {"initializeApp", "createBlankWebsite", "initializeEditor", "addSection", "deleteSection",
     "addTextToSection"}

\* The project has only been built up so far
Building == lastOp.op \in GrowingOps

NextEdit ==
    \/ createBlankWebsite
    \/ initializeEditor
    \/ Building /\ addSection
    \/ Building /\ \E index \in SectionIndices, confirmed \in BOOLEAN :
                      deleteSection(index, confirmed)
    \/ Building /\ \E index \in SectionIndices, direction \in Directions :
                      moveSection(index, direction)
    \/ Building /\ \E index \in SectionIndices, value \in NameInputs :
                      updateSectionName(index, value)
    \/ Building /\ \E index \in SectionIndices, r \in Rand :
                      /\ r = Len(sections[index + 1].content) + 1
                      /\ addTextToSection(index, r)
    \/ Building /\ \E index \in SectionIndices, r \in Rand :
                      /\ r = Len(sections[index + 1].content) + 1
                      /\ addImageToSection(index, r)
    \/ Building /\ \E index \in SectionIndices :
                      \E cindex \in ContentIndices(index), confirmed \in BOOLEAN :
                         deleteContent(index, cindex, confirmed)
    \/ Building /\ \E index \in SectionIndices :
                      \E cindex \in ContentIndices(index), direction \in Directions :
                         moveContent(index, cindex, direction)
    \/ Building /\ \E index \in SectionIndices, show \in BOOLEAN :
                      toggleSectionIcon(index, show)

SpecEdit == Init /\ [][NextEdit]_vars

\* C12: updateSectionName with an empty or whitespace-only value changes
\* nothing in the project (the name included), raises the error notice and
\* does not call updateProject: no save is scheduled.
C12_EmptyNameRejected ==
    [][ (Ran("updateSectionName") /\ lastOp'.arg \in {"empty", "whitespace"})
        => (/\ toast' = "Section name cannot be empty"
            /\ NothingRenderedOrScheduled
            /\ UNCHANGED <<buttons, layoutStyle, nextId>>) ]_vars

\* a whitespace-only name has just been refused for a section that has a name
C12_Witness ==
    /\ lastOp.op = "updateSectionName"
    /\ lastOp.arg = "whitespace"
    /\ toast = "Section name cannot be empty"
    /\ ~updated
    /\ Truthy(sections[lastOp.i + 1].name)

----------------------------------------------------------------------------
(* The generated document: navigation and section blocks *)

LayoutStyles == {"single", "sections", "menu"}

NoIcon == ""

\* buildSectionLabel: the icon is left out only for showIcon === false
buildSectionLabel(section) ==
    [icon |-> IF section.showIcon = "false" THEN NoIcon ELSE section.icon,
     name |-> section.name]

\* generatePreviewNavigation: the links of the bar or of the menu dropdown
generatePreviewNavigation(secs, layout) ==
    IF layout \in {"sections", "menu"}
    THEN [k \in 1..Len(secs) |-> [href |-> secs[k].id, label |-> buildSectionLabel(secs[k])]]
    ELSE <<>>

NoHeading == [icon |-> NoIcon, name |-> <<>>]

\* generatePreviewSections: a header block without heading, or a section
\* block under its icon and name
generatePreviewSections(secs) ==
    [k \in 1..Len(secs) |->
        IF secs[k].isHeader
        THEN [class |-> "header", id |-> secs[k].id, heading |-> NoHeading]
        ELSE [class |-> "section", id |-> secs[k].id, heading |-> buildSectionLabel(secs[k])]]

\* updateSetting bound to the layoutStyle control of the editor
updateSetting(value) ==
    /\ screen = "editor"
    /\ layoutStyle' = value
    /\ updateProject(sections, title, nextId, buttons, value)
    /\ Did("updateSetting", 0, 0, value, "", TRUE)
    /\ UNCHANGED <<screen, title, dom, buttons, legacy, saved, now, reads, initTimers,
                   windowAppState>>

\* A blank project under the three layouts, with the header and icon controls
NextPreview ==
    \/ createBlankWebsite
    \/ initializeEditor
    \/ \E value \in LayoutStyles : updateSetting(value)
    \/ \E index \in SectionIndices : makeHeader(index)
    \/ \E index \in SectionIndices, show \in BOOLEAN : toggleSectionIcon(index, show)
    \/ Tick

SpecPreview == Init /\ [][NextPreview]_vars

\* C13: under the layouts "sections" and "menu" the navigation of the
\* generated document shows no icon for the header section, whatever its
\* showIcon, and the header's block has no icon or name heading.
C13_HeaderIconNeverRendered ==
    preview.layoutStyle \in {"sections", "menu"} =>
        \A k \in 1..Len(preview.sections) :
            preview.sections[k].isHeader =>
                /\ generatePreviewNavigation(preview.sections, preview.layoutStyle)[k].label.icon
                      = NoIcon
                /\ generatePreviewSections(preview.sections)[k].heading = NoHeading

----------------------------------------------------------------------------
(* The type-specific fields of the buttons *)

\* the file object a completed read hands to updateButton
FileUpdate == [NoUpdates EXCEPT !.file = <<"file:handout.pdf">>]

\* reader.onload of handleButtonFileUpload, for the button the file input
\* was rendered for
handleButtonFileUpload(id) ==
    IF FindIndex(buttons, id) = 0
    THEN Returned("handleButtonFileUpload", 0, 0, "not found", "File uploaded for button")
    ELSE LET btns == [buttons EXCEPT ![FindIndex(buttons, id)] = Merge(@, FileUpdate)]
         IN  /\ buttons' = btns
             /\ updateProject(sections, title, nextId, btns, layoutStyle)
             /\ Did("handleButtonFileUpload", FindIndex(buttons, id) - 1, 0, "",
                    "File uploaded for button", TRUE)
             /\ UNCHANGED <<screen, title, dom, legacy, layoutStyle, saved, now, reads,
                            initTimers, windowAppState>>

\* The legacy settings the buttons are migrated from
FieldLegacySettings ==
    { settings \in LegacySettings :
        /\ settings.uploadedFile # Null
        /\ settings.uploadedFileName = Absent
        /\ settings.downloadButtonText = Absent
        /\ settings.contactButtonText = Absent
        /\ settings.contactButtonUrl \in
              {<<"foo", "@", "bar.com">>, <<"https", ":", "//", "foo", "@", "bar.com">>} }

InitButtonFields == InitMigrate /\ legacy \in FieldLegacySettings

\* the random parts of the ids of the buttons of the list
RandsInUse == {buttons[k].id[3] : k \in 1..Len(buttons)}

\* the id of a file button that was removed while its upload was pending
RemovedButtonId == createUniqueId(MaxClock + 1, 1)

\* the ids of the file buttons, whose file inputs start the uploads
FileButtonIds == {buttons[k].id : k \in {n \in 1..Len(buttons) : buttons[n].type = "file"}}

\* The migration and then the buttons manager; the random parts of the ids
\* do not repeat within the list, and an upload may complete after its
\* button was removed
NextButtonFields ==
    \/ \E r1, r2 \in Rand \ RandsInUse : r1 # r2 /\ migrateLegacySettings(r1, r2)
    \/ \E type \in ButtonTypes, r \in Rand \ RandsInUse : addButton(type, r)
    \/ \E k \in 1..Len(buttons) :
         \E updates \in ValueUpdates(buttons[k]) \cup {LabelUpdate} :
            updateButton(buttons[k].id, updates)
    \/ \E id \in FileButtonIds \cup {RemovedButtonId} : handleButtonFileUpload(id)
    \/ \E id \in RenderedButtonIds : removeButton(id)

SpecButtonFields == InitButtonFields /\ [][NextButtonFields]_vars

OnlyOwnField(b) ==
    /\ b.type = "file" => (b.href = Absent /\ b.email = Absent)
    /\ b.type = "link" => (b.file = Absent /\ b.email = Absent)
    /\ b.type = "email" => (b.file = Absent /\ b.href = Absent)

\* C14: every button of the list carries, of file, href and email, only the
\* field of its own type.
C14_OnlyOwnTypeField == \A k \in 1..Len(buttons) : OnlyOwnField(buttons[k])

\* an upload has completed for a file button that stands next to a button
\* of another type whose own field has been filled in
C14_Witness ==
    /\ lastOp.op = "handleButtonFileUpload"
    /\ updated
    /\ \E k \in 1..Len(buttons) : buttons[k].type = "file" /\ buttons[k].file = FileUpdate.file
    /\ \E k \in 1..Len(buttons) :
          \/ buttons[k].type = "email" /\ Truthy(buttons[k].email)
          \/ buttons[k].type = "link" /\ Truthy(buttons[k].href)

----------------------------------------------------------------------------
(* Section ids.  addSection takes the id from the clock alone, so the list *)
(* is let grow by one more section than elsewhere: room for two additions  *)
(* beside the header.  The import is of a text whose heading 'abstract'    *)
(* occurs twice, each time followed by text.                               *)

\* parseTextIntoSections: id: matchedHeader.replace(/\s+/g, '-')
RepeatedHeadingSections(name) ==
    <<ImportedHeader(name), ImportedSection("abstract", "Abstract"),
      ImportedSection("abstract", "Abstract")>>

NextIds ==
    \/ createBlankWebsite
    \/ initializeEditor
    \/ addSectionWithin(MaxSections + 1)
    \/ \E index \in SectionIndices : deleteSection(index, TRUE)
    \/ \E confirmed \in BOOLEAN : goHome(confirmed)
    \/ \E file \in Files : handleFile(file)
    \/ \E file \in reads : importSuccess(file, RepeatedHeadingSections(file.name))
    \/ Tick

SpecIds == Init /\ [][NextIds]_vars

\* C15: in every reachable state the ids of the sections of the project
\* are pairwise distinct (imports, addSection, header synthesis)
C15_SectionIdsDistinct ==
    \A i, j \in 1..Len(sections) : sections[i].id = sections[j].id => i = j

----------------------------------------------------------------------------
(* What follows a section or content operation *)

MutatingOps ==
    {"addSection", "deleteSection", "moveSection", "updateSectionName", "addTextToSection",
     "addImageToSection", "deleteContent", "moveContent", "toggleSectionIcon"}

----------------------------------------------------------------------------
(* Saving: a project is created and edited while the debounce timer, the   *)
(* 30 second sweep, Ctrl/Cmd+S and the beforeunload listener run.  A file, *)
(* if any, is submitted first thing after the page has loaded.             *)

Mutation ==
    \/ createBlankWebsite
    \/ \E index \in SectionIndices : deleteSection(index, TRUE)
    \/ \E index \in SectionIndices : updateSectionName(index, <<"Renamed">>)
    \/ goHome(TRUE)
    \/ \E file \in reads : importSuccess(file, BasicSections(file.name))

NextSave ==
    \/ Mutation
    \/ \E file \in Files : lastOp.op = "initializeApp" /\ handleFile(file)
    \/ initializeEditor
    \/ timerExpires
    \/ debouncedSave
    \/ autoSaveSweep
    \/ saveShortcut
    \/ beforeUnload

SpecSave == Init /\ [][NextSave]_vars

\* C17: at most one debounce timer is pending; a handler that calls
\* updateProject leaves exactly one, with its full delay still to run, so no
\* timer is due right after an updateProject; the timer that fires is the
\* only one, and its callback stores the project as it is then and clears
\* unsavedChanges
C17_SingleDebounceTimer ==
    [][ /\ Len(saveTimeout') <= 1
        /\ (updated' /\ now' = now) => saveTimeout' = <<"waiting">>
        /\ Ran("debouncedSave")
             => (/\ saveTimeout = <<"due">>
                 /\ saveTimeout' = <<>>
                 /\ UNCHANGED <<title, sections>>
                 /\ saved' = saveProject(title, sections)
                 /\ ~unsavedChanges') ]_vars

C17_Witness ==
    /\ lastOp.op = "debouncedSave"
    /\ saveTimeout = <<>>
    /\ ~unsavedChanges
    /\ saved = saveProject(title, sections)
    /\ Len(sections) = MaxSections
    /\ sections[2].name = <<"Renamed">>

\* Timers and intervals of a page that stays open do fire: the delay of a
\* waiting timer runs out, a due timer's callback runs, and the interval
\* callback runs again and again
SpecSaveFair ==
    /\ Init
    /\ [][NextSave]_vars
    /\ WF_vars(timerExpires)
    /\ WF_vars(debouncedSave)
    /\ WF_vars(autoSaveSweep)

Persisted == ~unsavedChanges /\ saved = saveProject(title, sections)

\* C18: unless mutations go on for ever, every state with unsavedChanges
\* set is followed by a state where the stored project is the current one
\* and unsavedChanges is false; an interval callback that finds
\* unsavedChanges false stores nothing
C18_EventuallySaved ==
    /\ ([]<><<Mutation>>_vars) \/ [](unsavedChanges => <>Persisted)
    /\ [][ (Ran("autoSaveSweep") /\ ~unsavedChanges) => UNCHANGED saved ]_vars

C18_Witness ==
    /\ lastOp = [op |-> "autoSaveSweep", i |-> 0, j |-> 0, arg |-> "saved"]
    /\ Persisted
    /\ saveTimeout = <<"waiting">>
    /\ Len(sections) = MaxSections

\* C19: with unsaved changes flagged, after Ctrl/Cmd+S and after the
\* beforeunload listener has run, the stored project is the current project
C19_ForcedSave ==
    [][ (/\ Ran("saveShortcut") \/ Ran("beforeUnload")
         /\ unsavedChanges)
        => saved' = saveProject(title', sections') ]_vars

----------------------------------------------------------------------------
(* Two files submitted one after the other while the page shows the upload *)
(* or the loading screen; each read has its own FileReader and callbacks.  *)

PosterFile == [name |-> <<"poster", ".", "txt">>, size |-> 1000, nameLength |-> 10]

SlidesFile == [name |-> <<"slides", ".", "pdf">>, size |-> 2000, nameLength |-> 10]

ParallelFiles == {PosterFile, SlidesFile}

NextReads ==
    \/ \E file \in ParallelFiles \cup Files : handleFile(file)
    \/ \E file \in reads : \E imported \in Imports(file.name) : importSuccess(file, imported)
    \/ \E file \in reads : importError(file)
    \/ initializeEditor

SpecReads == Init /\ [][NextReads]_vars

\* C20: the completion of one read, by its success or its error callback,
\* leaves every other pending read pending; an error callback leaves title
\* and sections alone; after a success callback the title is the name of
\* the file of this read, without extension, and the sections are the ones
\* delivered for this file, whatever other read is pending or has completed
C20_LastSuccessWins ==
    [][ (Ran("importSuccess") \/ Ran("importError"))
        => \E file \in reads :
              /\ reads' = reads \ {file}
              /\ IF lastOp'.op = "importError"
                 THEN UNCHANGED <<title, sections>>
                 ELSE /\ title' = StripExtension(file.name)
                      /\ sections' \in Imports(file.name) ]_vars

\* the poster's import has been shown in the editor and the slides' import,
\* completing after it, has replaced the project
C20_Witness ==
    /\ lastOp.op = "importSuccess"
    /\ reads = {}
    /\ title = <<"slides">>
    /\ sections = BasicSections(SlidesFile.name)
    /\ dom = DomOf(DefaultShowIcon(ParsedSections(PosterFile.name)))

----------------------------------------------------------------------------
(* Failed imports *)

\* C21: a file rejected by validateFile, and a read ended by its error
\* callback, leave title and sections as they were and raise a notice
C21_FailedImportKeepsProject ==
    [][ ((Ran("handleFile") /\ lastOp'.arg = "rejected") \/ Ran("importError"))
        => (/\ UNCHANGED <<title, sections, saved, unsavedChanges>>
            /\ toast' # "") ]_vars

\* the slides' read has failed after the poster's import had been shown
C21_Witness ==
    /\ lastOp.op = "importError"
    /\ toast = "File processing error"
    /\ screen = "upload"
    /\ title = <<"poster">>
    /\ sections = DefaultShowIcon(ParsedSections(PosterFile.name))
    /\ reads = {}

----------------------------------------------------------------------------
(* What ensureHeaderExists leaves alone *)

IgnoringHeaderFlag(secs) == [k \in 1..Len(secs) |-> [secs[k] EXCEPT !.isHeader = FALSE]]

\* C22: ensureHeaderExists on a list without a header puts one new section
\* in front of the unchanged list; on a list with a header it adds none,
\* brings the first flagged section to the front unchanged, and the sections
\* behind it are the others, in their order, equal up to isHeader
C22_EnsureHeaderFrame ==
    [][ Ran("ensureHeaderExists")
        => IF HeaderIndices(sections) = {}
           THEN /\ Len(sections') = Len(sections) + 1
                /\ Tail(sections') = sections
           ELSE LET first == SetMin(HeaderIndices(sections))
                IN  /\ Len(sections') = Len(sections)
                    /\ sections'[1] = sections[first]
                    /\ IgnoringHeaderFlag(Tail(sections'))
                         = IgnoringHeaderFlag(SubSeq(sections, 1, first - 1)
                                              \o SubSeq(sections, first + 1, Len(sections))) ]_vars

\* the second of three sections has been brought to the front as the header
C22_Witness ==
    /\ lastOp.op = "ensureHeaderExists"
    /\ Len(sections) = 3
    /\ sections[1].id = <<"loaded", 2, 0>>
    /\ sections[2].id = <<"loaded", 1, 0>>
    /\ sections[3].id = <<"loaded", 3, 0>>
    /\ HeaderIndices(sections) = {1}
    /\ sections[3].showIcon = "false"

----------------------------------------------------------------------------
(* Reordering: buttons are added and then moved from any index to any      *)
(* index, the indices just outside the list included.                      *)

ReorderIndices == (0 - 1)..MaxButtons

NextReorder ==
    \/ \E type \in ButtonTypes, r \in Rand : addButton(type, r)
    \/ \E fromIndex, toIndex \in ReorderIndices : reorderButtons(fromIndex, toIndex)

SpecReorder == InitLexical /\ [][NextReorder]_vars

\* The list without its element at index i (counted from 0)
ButtonsWithout(btns, i) == SubSeq(btns, 1, i) \o SubSeq(btns, i + 2, Len(btns))

\* C23: reorderButtons(fromIndex, toIndex) with both indices inside the
\* list puts the button of fromIndex at toIndex and leaves the other buttons
\* in their order; with an index outside the list it changes nothing and
\* triggers neither a re-render nor a save
C23_ReorderButtons ==
    [][ Ran("reorderButtons")
        => LET from == lastOp'.i
               to == lastOp'.j
           IN  IF from \in 0..(Len(buttons) - 1) /\ to \in 0..(Len(buttons) - 1)
               THEN /\ Len(buttons') = Len(buttons)
                    /\ buttons'[to + 1] = buttons[from + 1]
                    /\ ButtonsWithout(buttons', to) = ButtonsWithout(buttons, from)
                    /\ updated'
               ELSE /\ UNCHANGED buttons
                    /\ NothingRenderedOrScheduled ]_vars

\* the first of three different buttons has been moved to the end
C23_Witness ==
    /\ lastOp = [op |-> "reorderButtons", i |-> 0, j |-> 2, arg |-> ""]
    /\ updated
    /\ Len(buttons) = 3
    /\ buttons[1].type = "link"
    /\ buttons[2].type = "email"
    /\ buttons[3].type = "file"

----------------------------------------------------------------------------
(* The generated document: buttons, navigation, footer, header content.    *)
(* preview holds what updatePreview last read (title, sections, buttons,   *)
(* layoutStyle); the operators below are the generators applied to it.     *)

\* esc of generatePreviewButtonsArray, on the tokens that carry markup
EscToken(tok) ==
    CASE tok = "&" -> "&amp;"
      [] tok = "<" -> "&lt;"
      [] tok = ">" -> "&gt;"
      [] tok = "<h1>" -> "&lt;h1&gt;"
      [] tok = "</h1>" -> "&lt;/h1&gt;"
      [] tok = "<h1>Title</h1>" -> "&lt;h1&gt;Title&lt;/h1&gt;"
      [] OTHER -> tok

esc(str) == [k \in 1..Len(str) |-> EscToken(str[k])]

\* /^https?:\/\//i.test(normalized)
MatchesHttpSlashes(url) == MatchesHttpScheme(url) /\ Len(url) >= 3 /\ url[3] = "//"

\* btn.href.trim(), with 'https://' in front if the protocol is missing
NormalizedHref(href) ==
    IF MatchesHttpSlashes(Trim(href)) THEN Trim(href) ELSE <<"https", ":", "//">> \o Trim(href)

\* the branches of buttonSettings.forEach: a button whose own field is
\* falsy pushes nothing
ButtonRenders(btn) ==
    \/ btn.type = "file" /\ JsTruthy(btn.file)
    \/ btn.type = "email" /\ JsTruthy(btn.email)
    \/ btn.type = "link" /\ JsTruthy(btn.href)

PreviewButton(btn) ==
    [kind |-> btn.type,
     label |-> esc(IF JsTruthy(btn.label) THEN btn.label ELSE DefaultLabel(btn.type)),
     target |-> IF btn.type = "file" THEN esc(btn.file)
                ELSE IF btn.type = "email" THEN esc(btn.email)
                ELSE esc(NormalizedHref(btn.href))]

generatePreviewButtonsArray(btns) ==
    LET shown == SelectSeq(btns, ButtonRenders)
    IN  [k \in 1..Len(shown) |-> PreviewButton(shown[k])]

\* the buttons inside <nav> ('sections') or inside #menuDropdown ('menu')
generatePreviewNavigationButtons(btns, layout) ==
    IF layout \in {"sections", "menu"} THEN generatePreviewButtonsArray(btns) ELSE <<>>

\* a document that has the footer container under every layout
generatePreviewFooterAlways(btns, layout) == generatePreviewButtonsArray(btns)

\* ${layoutStyle === 'single' ? buttonsHtml : ''}
generatePreviewFooter(btns, layout) ==
    IF layout = "single" THEN generatePreviewButtonsArray(btns) ELSE <<>>

\* the header branch of generatePreviewSections: what each content block
\* of the header section contributes
generatePreviewHeaderContent(section) ==
    [c \in 1..Len(section.content) |->
        IF section.content[c].type = "text"
        THEN IF section.content[c].allowHtml
             THEN section.content[c].value
             ELSE <<"<div>">> \o section.content[c].value \o <<"</div>">>
        ELSE <<>>]

\* A blank project, its layout switched, buttons added, filled in and
\* removed (the random parts of the button ids differ)
NextRender ==
    \/ createBlankWebsite
    \/ initializeEditor
    \/ \E value \in LayoutStyles : updateSetting(value)
    \/ \E type \in ButtonTypes, r \in Rand : r \notin RandsInUse /\ addButton(type, r)
    \/ \E k \in 1..Len(buttons) :
         \E updates \in ValueUpdates(buttons[k]) \cup {LabelUpdate} :
            updateButton(buttons[k].id, updates)
    \/ \E k \in 1..Len(buttons) : removeButton(buttons[k].id)

SpecRender == InitLexical /\ [][NextRender]_vars

\* C24: the generated buttons are as many as the buttons of the settings
\* read by the last render, and the k-th one is of the k-th button's type
C24_EveryButtonRendered ==
    LET rendered == generatePreviewButtonsArray(preview.buttons)
    IN  /\ Len(rendered) = Len(preview.buttons)
        /\ \A k \in 1..Len(rendered) : rendered[k].kind = preview.buttons[k].type

\* C25: in the generated document each rendered button stands exactly
\* once: in the footer and with an empty navigation under 'single', in the
\* navigation and with no footer copy under 'sections' and 'menu'
C25_ButtonsPlacedOnce ==
    LET rendered == generatePreviewButtonsArray(preview.buttons)
        inNav == generatePreviewNavigationButtons(preview.buttons, preview.layoutStyle)
        inFooter == generatePreviewFooter(preview.buttons, preview.layoutStyle)
    IN  /\ inNav \o inFooter = rendered
        /\ preview.layoutStyle = "single"
             => /\ inNav = <<>>
                /\ generatePreviewNavigation(preview.sections, preview.layoutStyle) = <<>>
        /\ preview.layoutStyle \in {"sections", "menu"} => inFooter = <<>>

\* two filled-in buttons rendered inside the menu dropdown
C25_Witness ==
    /\ preview.layoutStyle = "menu"
    /\ preview.buttons = buttons
    /\ Len(generatePreviewNavigationButtons(preview.buttons, preview.layoutStyle)) = 2
    /\ generatePreviewNavigationButtons(preview.buttons, preview.layoutStyle)[1].target
         = <<"https", ":", "//", "x.org">>
    /\ Len(generatePreviewNavigation(preview.sections, preview.layoutStyle)) = 2

\* C26: in the generated header section a text block with allowHtml false
\* contributes its escaped value inside a div, one with allowHtml true its
\* value as it is
C26_HeaderTextEscaped ==
    \A k \in 1..Len(preview.sections) :
        preview.sections[k].isHeader =>
            \A c \in 1..Len(preview.sections[k].content) :
                LET block == preview.sections[k].content[c]
                    out == generatePreviewHeaderContent(preview.sections[k])[c]
                IN  block.type = "text" =>
                        out = IF block.allowHtml THEN block.value
                              ELSE <<"<div>">> \o esc(block.value) \o <<"</div>">>

----------------------------------------------------------------------------
(* The editor's section list against the project *)

\* C27: when an editing operation has completed, the k-th rendered section
\* element is that of the k-th section of the project, its controls carry
\* that section's index, and no delete control stands on the header
C27_ControlsMatchSections ==
    [][ (lastOp'.op \in MutatingOps /\ now' = now /\ updated')
        => /\ Len(dom') = Len(sections')
           /\ \A k \in 1..Len(dom') :
                 /\ dom'[k].id = sections'[k].id
                 /\ dom'[k].index = k - 1
                 /\ dom'[k].deleteControl => ~sections'[k].isHeader ]_vars

----------------------------------------------------------------------------
(* Going back to the upload screen against a pending debounced save *)

\* C28: while the upload screen shows a cleared store, the store stays cleared
\* until a project is created or imported: no save callback scheduled earlier
\* writes to it
C28_ClearedUntilNewProject ==
    [][ (/\ screen = "upload"
         /\ saved = NoProject
         /\ ~Ran("createBlankWebsite")
         /\ ~Ran("importSuccess"))
        => saved' = NoProject ]_vars

----------------------------------------------------------------------------
(* Image upload of editor.js.  The reader's onload callback closes over   *)
(* the section and content indices of the file input that started it;     *)
(* the steps below are those of one editor session, in which the project  *)
(* object the callback closes over is the current one.                    *)

MaxImageSize == 10485760

\* event.target.files[0]: a picture, a text file, a picture over 10MB, none
ImageFiles ==
    { [chosen |-> TRUE, type |-> <<"image/", "png">>, size |-> 2048,
       uri |-> <<"data:image/png;base64,AAAA">>],
      [chosen |-> TRUE, type |-> <<"text/", "plain">>, size |-> 2048,
       uri |-> <<"data:text/plain;base64,AAAA">>],
      [chosen |-> TRUE, type |-> <<"image/", "png">>, size |-> MaxImageSize + 1,
       uri |-> <<"data:image/png;base64,BBBB">>],
      [chosen |-> FALSE, type |-> <<>>, size |-> 0, uri |-> <<>>] }

\* A pending reader.readAsDataURL: the indices its callback closes over and,
\* for the properties, the id of the block whose file input started it
ImageRead(file, index, cindex) ==
    [name |-> <<"#image">>, uri |-> file.uri, sectionIndex |-> index,
     contentIndex |-> cindex, started |-> sections[index + 1].content[cindex + 1].id]

\* block.url = uri; an image block keeps its url in the value field, any
\* other block gains a url property
SetUrl(block, uri) ==
    IF block.type = "image"
    THEN [block EXCEPT !.value = uri]
    ELSE [f \in DOMAIN block \cup {"url"} |-> IF f = "url" THEN uri ELSE block[f]]

handleImageUpload(index, cindex, file) ==
    /\ screen = "editor"
    /\ sections[index + 1].content[cindex + 1].type = "image"
    /\ IF ~file.chosen
       THEN Returned("handleImageUpload", index, cindex, "nofile", "")
       ELSE IF Head(file.type) # "image/"
       THEN Returned("handleImageUpload", index, cindex, "rejected",
                     "Please upload an image file")
       ELSE IF file.size > MaxImageSize
       THEN Returned("handleImageUpload", index, cindex, "rejected",
                     "Image too large. Maximum size is 10MB.")
       ELSE /\ Cardinality(reads) < MaxReads
            /\ reads' = reads \cup {ImageRead(file, index, cindex)}
            /\ Did("handleImageUpload", index, cindex, "", "", FALSE)
            /\ UNCHANGED <<screen, title, sections, dom, preview, buttons, legacy,
                           layoutStyle, unsavedChanges, saveTimeout, saved, now, nextId,
                           initTimers, windowAppState, windowUpdateProject>>

\* reader.onload.  project.sections[sectionIndex].id and
\* content[contentIndex].url = ... raise a TypeError when the index is past
\* the end; nothing after the raising statement runs.
imageLoaded(read) ==
    /\ read \in reads
    /\ read.name = <<"#image">>
    /\ reads' = reads \ {read}
    /\ IF \/ read.sectionIndex >= Len(sections)
          \/ read.contentIndex >= Len(sections[read.sectionIndex + 1].content)
       THEN /\ Did("imageLoaded", read.sectionIndex, read.contentIndex, "TypeError", "", FALSE)
            /\ UNCHANGED <<screen, title, sections, dom, preview, buttons, legacy,
                           layoutStyle, unsavedChanges, saveTimeout, saved, now, nextId,
                           initTimers, windowAppState, windowUpdateProject>>
       ELSE /\ LET changed ==
                     DefaultShowIcon(
                         [sections EXCEPT
                             ![read.sectionIndex + 1].content[read.contentIndex + 1] =
                                 SetUrl(@, read.uri)])
               IN  /\ dom' = DomOf(changed)
                   /\ updateProject(changed, title, nextId, buttons, layoutStyle)
            /\ Did("imageLoaded", read.sectionIndex, read.contentIndex, "",
                   "Image uploaded successfully", TRUE)
            /\ UNCHANGED <<screen, title, buttons, legacy, layoutStyle, saved, now,
                           initTimers, windowAppState>>

\* the ids of the content blocks of the project
ContentIdsInUse ==
    { sections[k].content[c].id : <<k, c>> \in
        { p \in (1..Len(sections)) \X (1..MaxContent + 1) :
            p[2] <= Len(sections[p[1]].content) } }

NextImage ==
    \/ createBlankWebsite
    \/ \E index \in SectionIndices, r \in Rand :
         createUniqueId(now, r) \notin ContentIdsInUse /\ addImageToSection(index, r)
    \/ \E index \in SectionIndices :
         \E cindex \in ContentIndices(index) : deleteContent(index, cindex, TRUE)
    \/ \E index \in SectionIndices :
         \E cindex \in ContentIndices(index) : moveContent(index, cindex, "up")
    \/ \E index \in SectionIndices : deleteSection(index, TRUE)
    \/ \E index \in SectionIndices :
         \E cindex \in ContentIndices(index), file \in ImageFiles :
            reads = {} /\ handleImageUpload(index, cindex, file)
    \/ \E read \in reads : imageLoaded(read)

SpecImage == InitLexical /\ [][NextImage]_vars

\* where the blocks with that id stand in the sections
BlocksWithId(secs, id) ==
    { <<k, c>> \in (1..Len(secs)) \X (1..MaxContent + 1) :
        c <= Len(secs[k].content) /\ secs[k].content[c].id = id }

\* C29: a completed image read writes its data URI to the block that started
\* it and to no other, wherever that block stands by then; if the block is
\* gone the completion leaves the sections alone and raises nothing
C29_ImageReachesItsBlock ==
    [][ Ran("imageLoaded")
        => \A read \in reads \ reads' :
              /\ lastOp'.arg # "TypeError"
              /\ Len(sections') = Len(sections)
              /\ \A k \in 1..Len(sections) :
                    /\ Len(sections'[k].content) = Len(sections[k].content)
                    /\ \A c \in 1..Len(sections[k].content) :
                          sections'[k].content[c] =
                              IF <<k, c>> \in BlocksWithId(sections, read.started)
                              THEN SetUrl(sections[k].content[c], read.uri)
                              ELSE sections[k].content[c] ]_vars

----------------------------------------------------------------------------
(* The import handler of fileHandlers.js and the callbacks it is handed.   *)
(* Here reads holds one record for each call of handleFile: the file, how  *)
(* often the call has invoked onSuccess and onError so far, whether its    *)
(* reader is still reading, and whether the onSuccess it was handed raises *)
(* an exception when invoked.  Of the formats only pdf and txt are         *)
(* followed into their handlers.                                           *)

NoFileGiven == [name |-> <<>>, size |-> 0, nameLength |-> 0]

HandledFiles ==
    { [name |-> <<"poster", ".", "pdf">>, size |-> 1000, nameLength |-> 10],
      [name |-> <<"notes", ".", "txt">>, size |-> 1000, nameLength |-> 9],
      [name |-> <<"setup", ".", "exe">>, size |-> 1000, nameLength |-> 9],
      NoFileGiven }

HandlerCall(file, successThrows, successes, errors, reading) ==
    [name |-> file.name, size |-> file.size, nameLength |-> file.nameLength,
     successThrows |-> successThrows, onSuccess |-> successes, onError |-> errors,
     reading |-> reading]

\* the call after it has invoked onError(message)
InvokeOnError(call) == [call EXCEPT !.onError = @ + 1, !.reading = FALSE]

\* the call after it has invoked onSuccess(sections, file.name)
InvokeOnSuccess(call) == [call EXCEPT !.onSuccess = @ + 1, !.reading = FALSE]

CallStep(op, arg, before, after) ==
    /\ reads' = (reads \ before) \cup {after}
    /\ Did(op, 0, 0, arg, "", FALSE)
    /\ UNCHANGED <<screen, title, sections, dom, preview, buttons, legacy, layoutStyle,
                   unsavedChanges, saveTimeout, saved, now, nextId, initTimers,
                   windowAppState, windowUpdateProject>>

\* LWB_FileHandlers.handleFile(file, onSuccess, onError) up to its return:
\* the two rejections, or the start of the reader of handlePDF / handleText
fileHandlersHandleFile(file, successThrows) ==
    /\ Cardinality(reads) < MaxReads
    /\ \A call \in reads : call.name # file.name
    /\ IF file = NoFileGiven
       THEN CallStep("fileHandlers.handleFile", "No file provided", {},
                     InvokeOnError(HandlerCall(file, successThrows, 0, 0, TRUE)))
       ELSE IF ~isValidFileType(file)
       THEN CallStep("fileHandlers.handleFile", "Unsupported file format", {},
                     InvokeOnError(HandlerCall(file, successThrows, 0, 0, TRUE)))
       ELSE /\ Extension(file.name) \in {"pdf", "txt"}
            /\ CallStep("fileHandlers.handleFile", Extension(file.name), {},
                        HandlerCall(file, successThrows, 0, 0, TRUE))

\* reader.onerror of handlePDF and of handleText
readerOnerror(call) ==
    /\ call \in reads
    /\ call.reading
    /\ CallStep("reader.onerror", "Failed to read file", {call}, InvokeOnError(call))

\* reader.onload of handleText: parse and onSuccess inside one try, whose
\* catch invokes onError
handleTextOnload(call, parseThrows) ==
    /\ call \in reads
    /\ call.reading
    /\ Extension(call.name) = "txt"
    /\ IF parseThrows
       THEN CallStep("handleText.onload", "parse failed", {call}, InvokeOnError(call))
       ELSE IF call.successThrows
       THEN CallStep("handleText.onload", "onSuccess threw", {call},
                     InvokeOnError(InvokeOnSuccess(call)))
       ELSE CallStep("handleText.onload", "", {call}, InvokeOnSuccess(call))

PDFOutcomes == {"getDocument throws", "loading rejected", "extracted", "extraction rejected"}

\* reader.onload of handlePDF with the promise jobs that follow it.  The
\* fallback createBasicSections(file.name, onSuccess) runs where nothing
\* catches what onSuccess raises; onSuccess in the then of
\* extractTextFromPDF is followed by a catch that invokes onError.
handlePDFOnload(call, outcome) ==
    /\ call \in reads
    /\ call.reading
    /\ Extension(call.name) = "pdf"
    /\ IF outcome \in {"getDocument throws", "loading rejected"}
       THEN CallStep("handlePDF.onload", outcome, {call}, InvokeOnSuccess(call))
       ELSE IF outcome = "extraction rejected"
       THEN CallStep("handlePDF.onload", outcome, {call}, InvokeOnError(call))
       ELSE IF call.successThrows
       THEN CallStep("handlePDF.onload", "onSuccess threw", {call},
                     InvokeOnError(InvokeOnSuccess(call)))
       ELSE CallStep("handlePDF.onload", outcome, {call}, InvokeOnSuccess(call))

InitCallbacks == InitLexical

NextCallbacks ==
    \/ \E file \in HandledFiles, successThrows \in BOOLEAN :
         fileHandlersHandleFile(file, successThrows)
    \/ \E call \in reads : readerOnerror(call)
    \/ \E call \in reads, parseThrows \in BOOLEAN : handleTextOnload(call, parseThrows)
    \/ \E call \in reads, outcome \in PDFOutcomes : handlePDFOnload(call, outcome)

SpecCallbacks == InitCallbacks /\ [][NextCallbacks]_vars

\* C30: no call of the import handler has invoked both callbacks or one of
\* them twice, and a call whose processing has ended has invoked one
C30_ExactlyOneCallback ==
    \A call \in reads :
        /\ call.onSuccess + call.onError <= 1
        /\ ~call.reading => call.onSuccess + call.onError = 1

====
